---- MODULE Spec2Model ----
(***************************************************************************)
(* A model of mdbook-mermaid (src/src/lib.rs): the preprocessor's run, the *)
(* walk over the book tree (apply_to_sections, apply_to_chapter) and       *)
(* add_mermaid, whose closure over the parser's events is stepped one      *)
(* event at a time, as the lazy iterator runs it.                          *)
(*                                                                         *)
(* Strings are sequences of tokens (a token is a chunk of characters), so  *)
(* that push_str and format! are concatenations.  pulldown_cmark's Parser  *)
(* and pulldown_cmark_to_cmark's cmark are libraries: a markdown text is   *)
(* represented by the event stream the Parser yields for it and by whether *)
(* its formatting is the one cmark writes (canonical); cmark's output is   *)
(* the canonical text of the events it was given.                          *)
(***************************************************************************)
EXTENDS Naturals, Sequences, FiniteSets

VARIABLES
    renderer,          \* the rendering target the preprocessor is invoked for
    book0,             \* the book handed to run
    book,              \* run's `mut book`
    stack,             \* the active apply_to_sections calls, innermost last
    pc,                \* "start", "sections", "add_mermaid", "chapter", "unwind", "done"
    result,            \* how run ended, once pc = "done"
    ret,               \* the Result add_mermaid returned, then the Err passed up by `?`
    log,               \* history: the add_mermaid calls so far, with how each ended
    opts,              \* add_mermaid: the Options given to the Parser
    cmark_state,       \* add_mermaid: the state argument given to cmark
    pos,               \* add_mermaid: how many events the Parser has yielded
    in_mermaid_block,  \* add_mermaid: the flag
    mermaid_content,   \* add_mermaid: the accumulator
    mapped,            \* add_mermaid: what the closure returned, per event
    buf                \* add_mermaid: the events cmark has written to buf

vars == <<renderer, book0, book, stack, pc, result, ret, log, opts, cmark_state, pos,
          in_mermaid_block, mermaid_content, mapped, buf>>

(***************************************************************************)
(* Bounds.                                                                 *)
(***************************************************************************)
MaxLen == 4

MaxNodes == 3

(***************************************************************************)
(* Events (pulldown_cmark::Event).  tag names the Tag of a Start or End, s *)
(* is the label of a CodeBlock or the payload of a Text or Html.           *)
(***************************************************************************)
Start(tag, s) == [kind |-> "Start", tag |-> tag, s |-> s]

End(tag, s) == [kind |-> "End", tag |-> tag, s |-> s]

Text(s) == [kind |-> "Text", tag |-> "", s |-> s]

Html(s) == [kind |-> "Html", tag |-> "", s |-> s]

None == [kind |-> "None", tag |-> "", s |-> <<>>]

Mermaid == <<"mermaid">>

Python == <<"python">>

GraphTD == <<"graph TD", "\n">>

AToB == <<"A --", ">", " B", "\n">>

Alphabet ==
    { Start("CodeBlock", Mermaid), End("CodeBlock", Mermaid),
      Start("CodeBlock", Python), End("CodeBlock", Python),
      Text(GraphTD), Text(AToB), Html(<<"<hr>", "\n">>) }

RECURSIVE SeqsUpTo(_, _)
SeqsUpTo(S, n) ==
    IF n = 0 THEN {<<>>}
    ELSE LET shorter == SeqsUpTo(S, n - 1)
         IN  shorter \cup {Append(q, e) : q \in shorter, e \in S}

\* The events of the adds_mermaid test's content.
AddsMermaidEvents ==
    << Start("Heading", <<>>), Text(<<"Chapter">>), End("Heading", <<>>),
       Start("CodeBlock", Mermaid), Text(GraphTD), Text(AToB),
       End("CodeBlock", Mermaid),
       Start("Paragraph", <<>>), Text(<<"Text">>), End("Paragraph", <<>>) >>

\* The events of the leaves_tables_untouched test's content.
TableEvents ==
    << Start("Heading", <<>>), Text(<<"Heading">>), End("Heading", <<>>),
       Start("Table", <<>>),
       Start("TableHead", <<>>),
       Start("TableCell", <<>>), Text(<<"Head 1">>), End("TableCell", <<>>),
       Start("TableCell", <<>>), Text(<<"Head 2">>), End("TableCell", <<>>),
       End("TableHead", <<>>),
       Start("TableRow", <<>>),
       Start("TableCell", <<>>), Text(<<"Row 1">>), End("TableCell", <<>>),
       Start("TableCell", <<>>), Text(<<"Row 2">>), End("TableCell", <<>>),
       End("TableRow", <<>>),
       End("Table", <<>>) >>

\* A document with three target blocks and a block of another label.
MultiBlockEvents ==
    << Start("CodeBlock", Mermaid), Text(GraphTD), End("CodeBlock", Mermaid),
       Start("Paragraph", <<>>), Text(<<"Text">>), End("Paragraph", <<>>),
       Start("CodeBlock", Mermaid), End("CodeBlock", Mermaid),
       Start("CodeBlock", Python), Text(GraphTD), End("CodeBlock", Python),
       Start("CodeBlock", Mermaid), Text(AToB), Text(GraphTD),
       End("CodeBlock", Mermaid) >>

\* A target block with an event that is no Text between its Text runs.
InterruptedBlockEvents ==
    << Start("CodeBlock", Mermaid), Text(GraphTD), Html(<<"<hr>", "\n">>),
       Text(AToB), End("CodeBlock", Mermaid) >>

\* A target Start and a Start of another label, both inside an open block.
RestartedBlockEvents ==
    << Start("CodeBlock", Mermaid), Text(GraphTD), Start("CodeBlock", Mermaid),
       Start("CodeBlock", Python), Text(AToB), End("CodeBlock", Mermaid) >>

Streams ==
    SeqsUpTo(Alphabet, MaxLen)
        \cup {AddsMermaidEvents, TableEvents, MultiBlockEvents,
              InterruptedBlockEvents, RestartedBlockEvents}

(***************************************************************************)
(* Texts and books.                                                        *)
(***************************************************************************)
MdText(events, canonical) == [events |-> events, canonical |-> canonical]

\* cmark(events, &mut buf, None), when it returns Ok: the text written to buf.
Cmark(events) == MdText(events, TRUE)

Chapter(content) == [kind |-> "Chapter", content |-> content]

Separator == [kind |-> "Separator", content |-> MdText(<<>>, TRUE)]

\* The contents of the chapters of the books with several items.
SmallDocs ==
    { MdText(<<>>, TRUE),
      MdText(<<Start("CodeBlock", Mermaid), Text(GraphTD), End("CodeBlock", Mermaid)>>, FALSE),
      MdText(<<Start("CodeBlock", Mermaid), End("CodeBlock", Python)>>, FALSE),
      MdText(<<Start("CodeBlock", Mermaid), Text(AToB)>>, FALSE),
      MdText(<<Text(GraphTD)>>, FALSE) }

\* A book is a function from the paths of its items to the items: the item at
\* <<i>> is book.sections[i], the item at p \o <<j>> is sub_items[j] of the
\* chapter at p.
RECURSIVE PathsOfSum(_)
PathsOfSum(n) ==
    IF n = 0 THEN {<<>>}
    ELSE UNION { {<<i>> \o q : q \in PathsOfSum(n - i)} : i \in 1..n }

AllPaths == UNION { PathsOfSum(n) : n \in 1..MaxNodes }

Parent(p) == SubSeq(p, 1, Len(p) - 1)

IsShape(P) ==
    \A p \in P :
        /\ Len(p) > 1 => Parent(p) \in P
        /\ p[Len(p)] > 1 => (Parent(p) \o <<p[Len(p)] - 1>>) \in P

Shapes == { P \in SUBSET AllPaths : Cardinality(P) <= MaxNodes /\ IsShape(P) }

Items == {Separator} \cup {Chapter(d) : d \in SmallDocs}

TreeBooks ==
    UNION { { b \in [P -> Items] :
                \A p \in P : Len(p) > 1 => b[Parent(p)].kind = "Chapter" }
            : P \in Shapes }

DocBooks == { [p \in {<<1>>} |-> Chapter(MdText(s, FALSE))] : s \in Streams }

Books == TreeBooks \cup DocBooks

Renderers == {"html", "epub"}

NumItems(b, p) == Cardinality({ q \in DOMAIN b : Len(q) = Len(p) + 1 /\ Parent(q) = p })

(***************************************************************************)
(* Preprocessor::supports_renderer.                                        *)
(***************************************************************************)
SupportsRenderer(r) == r = "html"

(***************************************************************************)
(* add_mermaid's pieces.                                                   *)
(***************************************************************************)
NoOpts == {}

\* Mutant: ENABLE_TABLES is not inserted.
OptsWithoutTables ==
    ((NoOpts \cup {"ENABLE_FOOTNOTES"}) \cup {"ENABLE_STRIKETHROUGH"})
        \cup {"ENABLE_TASKLISTS"}

Opts ==
    (((NoOpts \cup {"ENABLE_TABLES"}) \cup {"ENABLE_FOOTNOTES"})
        \cup {"ENABLE_STRIKETHROUGH"}) \cup {"ENABLE_TASKLISTS"}

\* Parser::new_ext(content, opts): the events of the text.
Parser(content, o) == content.events

\* Mutant: the label is not compared.
IsMermaidAnyLabel(code) == TRUE

IsMermaid(code) == code = Mermaid

IsStartCodeBlock(e) == e.kind = "Start" /\ e.tag = "CodeBlock"

IsEndCodeBlock(e) == e.kind = "End" /\ e.tag = "CodeBlock"

\* Mutant: the accumulator is not cleared.
ClearKeeps(content) == content

\* mermaid_content.clear()
Clear(content) == <<>>

\* mermaid_content.push_str(&code)
PushStr(content, code) == content \o code

\* Mutant: the content is HTML-escaped.
MermaidCodeEscaped(content) ==
    <<"<pre class=\"mermaid\">">>
        \o [k \in 1..Len(content) |-> IF content[k] = ">" THEN "&gt;" ELSE content[k]]
        \o <<"</pre>", "\n", "\n">>

\* format!("<pre class=\"mermaid\">{}</pre>\n\n", mermaid_content)
MermaidCode(content) ==
    <<"<pre class=\"mermaid\">">> \o content \o <<"</pre>", "\n", "\n">>

\* events.filter_map(|e| e)
RECURSIVE FilterMap(_)
FilterMap(ms) ==
    IF ms = <<>> THEN <<>>
    ELSE IF Head(ms) = None THEN FilterMap(Tail(ms))
         ELSE <<Head(ms)>> \o FilterMap(Tail(ms))

(***************************************************************************)
(* The state of the walk.                                                  *)
(***************************************************************************)
Top == stack[Len(stack)]

\* The item the innermost loop is at.
Cur == Top.list \o <<Top.idx>>

CurEvents == Parser(book[Cur].content, opts)

NoResult == [tag |-> "none"]

Locals0 ==
    /\ opts = NoOpts
    /\ cmark_state = "unset"
    /\ pos = 0
    /\ in_mermaid_block = FALSE
    /\ mermaid_content = <<>>
    /\ mapped = <<>>
    /\ buf = <<>>

DropLocals ==
    /\ opts' = NoOpts
    /\ cmark_state' = "unset"
    /\ pos' = 0
    /\ in_mermaid_block' = FALSE
    /\ mermaid_content' = <<>>
    /\ mapped' = <<>>
    /\ buf' = <<>>

Init ==
    /\ renderer \in Renderers
    /\ book0 \in Books
    /\ book = book0
    /\ stack = <<>>
    /\ pc = "start"
    /\ result = NoResult
    /\ ret = NoResult
    /\ log = <<>>
    /\ Locals0

(***************************************************************************)
(* run, apply_to_sections, apply_to_chapter.                               *)
(***************************************************************************)
walk == <<renderer, book0, book, stack, pc, result, ret, log>>

locals == <<opts, cmark_state, pos, in_mermaid_block, mermaid_content, mapped, buf>>

\* Mutant: run returns the book as it is for a renderer it does not support.
RunIfSupported ==
    /\ pc = "start"
    /\ IF SupportsRenderer(renderer)
       THEN /\ stack' = <<[list |-> <<>>, idx |-> 1]>>
            /\ pc' = "sections"
            /\ UNCHANGED result
       ELSE /\ result' = [tag |-> "Ok", book |-> book]
            /\ pc' = "done"
            /\ UNCHANGED stack
    /\ UNCHANGED <<renderer, book0, book, ret, log, locals>>

\* run calls apply_to_sections(&mut book.sections); _ctx is not read.
Run ==
    /\ pc = "start"
    /\ stack' = <<[list |-> <<>>, idx |-> 1]>>
    /\ pc' = "sections"
    /\ UNCHANGED <<renderer, book0, book, result, ret, log, locals>>

\* Mutant: the flag outlives the call, as a static would: a call starts inside
\* when the call before it ended in an unclosed target block.
LoopChapterStaticFlag ==
    /\ pc = "sections"
    /\ stack # <<>>
    /\ Top.idx <= NumItems(book, Top.list)
    /\ book[Cur].kind = "Chapter"
    /\ opts' = Opts
    /\ cmark_state' = "None"
    /\ pos' = 0
    /\ in_mermaid_block' =
        /\ log # <<>>
        /\ LET prev == book0[log[Len(log)].path].content.events
           IN  \E b \in 1..Len(prev) :
                /\ prev[b] = Start("CodeBlock", Mermaid)
                /\ \A k \in (b + 1)..Len(prev) : ~IsEndCodeBlock(prev[k])
    /\ mermaid_content' = <<>>
    /\ mapped' = <<>>
    /\ buf' = <<>>
    /\ pc' = "add_mermaid"
    /\ UNCHANGED <<renderer, book0, book, stack, result, ret, log>>

\* The loop reaches a chapter: apply_to_chapter calls add_mermaid, which
\* builds its locals, the options and the lazy iterator and calls cmark.
LoopChapter ==
    /\ pc = "sections"
    /\ stack # <<>>
    /\ Top.idx <= NumItems(book, Top.list)
    /\ book[Cur].kind = "Chapter"
    /\ opts' = Opts
    /\ cmark_state' = "None"
    /\ pos' = 0
    /\ in_mermaid_block' = FALSE
    /\ mermaid_content' = <<>>
    /\ mapped' = <<>>
    /\ buf' = <<>>
    /\ pc' = "add_mermaid"
    /\ UNCHANGED <<renderer, book0, book, stack, result, ret, log>>

\* BookItem::Separator => {}
LoopSeparator ==
    /\ pc = "sections"
    /\ stack # <<>>
    /\ Top.idx <= NumItems(book, Top.list)
    /\ book[Cur].kind = "Separator"
    /\ stack' = [stack EXCEPT ![Len(stack)].idx = @ + 1]
    /\ UNCHANGED <<renderer, book0, book, pc, result, ret, log, locals>>

\* The loop is over: apply_to_sections returns Ok(()).  A nested call was
\* apply_to_chapter's tail call, so the caller's loop goes on to its next item.
LoopEnd ==
    /\ pc = "sections"
    /\ stack # <<>>
    /\ Top.idx > NumItems(book, Top.list)
    /\ stack' = IF Len(stack) = 1 THEN <<>>
                ELSE [SubSeq(stack, 1, Len(stack) - 1)
                        EXCEPT ![Len(stack) - 1].idx = @ + 1]
    /\ UNCHANGED <<renderer, book0, book, pc, result, ret, log, locals>>

\* Ok(book)
RunOk ==
    /\ pc = "sections"
    /\ stack = <<>>
    /\ result' = [tag |-> "Ok", book |-> book]
    /\ pc' = "done"
    /\ UNCHANGED <<renderer, book0, book, stack, ret, log, locals>>

\* Mutant: the content is replaced and the sub-items are not walked.
ChapterOkSkipsSubItems ==
    /\ pc = "chapter"
    /\ ret.tag = "Ok"
    /\ book' = [book EXCEPT ![Cur].content = ret.text]
    /\ stack' = [stack EXCEPT ![Len(stack)].idx = @ + 1]
    /\ ret' = NoResult
    /\ pc' = "sections"
    /\ UNCHANGED <<renderer, book0, result, log, locals>>

\* Mutant: the chapter is rebuilt from its new content, without its sub-items.
ChapterOkDropsSubItems ==
    /\ pc = "chapter"
    /\ ret.tag = "Ok"
    /\ book' = [ q \in { r \in DOMAIN book :
                            ~(Len(r) > Len(Cur) /\ SubSeq(r, 1, Len(Cur)) = Cur) }
                   |-> IF q = Cur THEN Chapter(ret.text) ELSE book[q] ]
    /\ stack' = Append(stack, [list |-> Cur, idx |-> 1])
    /\ ret' = NoResult
    /\ pc' = "sections"
    /\ UNCHANGED <<renderer, book0, result, log, locals>>

\* chapter.content = add_mermaid(..)?  with Ok, then
\* apply_to_sections(&mut chapter.sub_items)
ChapterOk ==
    /\ pc = "chapter"
    /\ ret.tag = "Ok"
    /\ book' = [book EXCEPT ![Cur].content = ret.text]
    /\ stack' = Append(stack, [list |-> Cur, idx |-> 1])
    /\ ret' = NoResult
    /\ pc' = "sections"
    /\ UNCHANGED <<renderer, book0, result, log, locals>>

\* Mutant: the Err is dropped and the loop goes on to the next item.
ChapterErrSwallowed ==
    /\ pc = "chapter"
    /\ ret.tag = "Err"
    /\ ret' = NoResult
    /\ stack' = [stack EXCEPT ![Len(stack)].idx = @ + 1]
    /\ pc' = "sections"
    /\ UNCHANGED <<renderer, book0, book, result, log, locals>>

\* chapter.content = add_mermaid(..)?  with Err
ChapterErr ==
    /\ pc = "chapter"
    /\ ret.tag = "Err"
    /\ pc' = "unwind"
    /\ UNCHANGED <<renderer, book0, book, stack, result, ret, log, locals>>

\* apply_to_chapter(ch)?  with Err: apply_to_sections returns it
SectionsErr ==
    /\ pc = "unwind"
    /\ stack # <<>>
    /\ stack' = SubSeq(stack, 1, Len(stack) - 1)
    /\ UNCHANGED <<renderer, book0, book, pc, result, ret, log, locals>>

\* apply_to_sections(&mut book.sections)?  with Err: run returns it
RunErr ==
    /\ pc = "unwind"
    /\ stack = <<>>
    /\ result' = ret
    /\ pc' = "done"
    /\ UNCHANGED <<renderer, book0, book, stack, ret, log, locals>>

(***************************************************************************)
(* add_mermaid: the closure, run by cmark's pull of the next event.        *)
(***************************************************************************)
HasNext == pc = "add_mermaid" /\ pos < Len(CurEvents)

NextEvent == CurEvents[pos + 1]

\* Mutant: what cmark writes goes in front of buf.
YieldFront(m) ==
    /\ mapped' = Append(mapped, m)
    /\ buf' = FilterMap(<<m>>) \o buf
    /\ pos' = pos + 1

\* The closure returned m; filter_map hands a Some to cmark, which writes it.
Yield(m) ==
    /\ mapped' = Append(mapped, m)
    /\ buf' = buf \o FilterMap(<<m>>)
    /\ pos' = pos + 1

\* Mutant: the Start check runs after the flag check, so a target Start met
\* inside a block falls to the last arm and is returned.
StartMermaidOnlyOutside ==
    /\ HasNext
    /\ IsStartCodeBlock(NextEvent)
    /\ IsMermaid(NextEvent.s)
    /\ IF in_mermaid_block
       THEN /\ Yield(NextEvent)
            /\ UNCHANGED <<in_mermaid_block, mermaid_content>>
       ELSE /\ in_mermaid_block' = TRUE
            /\ mermaid_content' = Clear(mermaid_content)
            /\ Yield(None)
    /\ UNCHANGED <<walk, opts, cmark_state>>

\* Mutant: the target Start opens the block and is returned as well.
StartMermaidEmits ==
    /\ HasNext
    /\ IsStartCodeBlock(NextEvent)
    /\ IsMermaid(NextEvent.s)
    /\ in_mermaid_block' = TRUE
    /\ mermaid_content' = Clear(mermaid_content)
    /\ Yield(NextEvent)
    /\ UNCHANGED <<walk, opts, cmark_state>>

\* Start(CodeBlock("mermaid")): return None
StartMermaid ==
    /\ HasNext
    /\ IsStartCodeBlock(NextEvent)
    /\ IsMermaid(NextEvent.s)
    /\ in_mermaid_block' = TRUE
    /\ mermaid_content' = Clear(mermaid_content)
    /\ Yield(None)
    /\ UNCHANGED <<walk, opts, cmark_state>>

\* Start(CodeBlock(other)): return Some(e)
StartOther ==
    /\ HasNext
    /\ IsStartCodeBlock(NextEvent)
    /\ ~IsMermaid(NextEvent.s)
    /\ Yield(NextEvent)
    /\ UNCHANGED <<walk, opts, cmark_state, in_mermaid_block, mermaid_content>>

\* Mutant: without the early return a Text outside a block is accumulated.
OutsideAccumulatesText ==
    /\ HasNext
    /\ ~IsStartCodeBlock(NextEvent)
    /\ ~in_mermaid_block
    /\ IF NextEvent.kind = "Text"
       THEN /\ mermaid_content' = PushStr(mermaid_content, NextEvent.s)
            /\ Yield(None)
       ELSE /\ Yield(NextEvent)
            /\ UNCHANGED mermaid_content
    /\ UNCHANGED <<walk, opts, cmark_state, in_mermaid_block>>

\* if !in_mermaid_block { return Some(e) }
Outside ==
    /\ HasNext
    /\ ~IsStartCodeBlock(NextEvent)
    /\ ~in_mermaid_block
    /\ Yield(NextEvent)
    /\ UNCHANGED <<walk, opts, cmark_state, in_mermaid_block, mermaid_content>>

\* Mutant: the End closes the block and nothing is returned for it.
EndCodeBlockSilent ==
    /\ HasNext
    /\ ~IsStartCodeBlock(NextEvent)
    /\ in_mermaid_block
    /\ IsEndCodeBlock(NextEvent)
    /\ Mermaid = NextEvent.s
    /\ in_mermaid_block' = FALSE
    /\ Yield(None)
    /\ UNCHANGED <<walk, opts, cmark_state, mermaid_content>>

\* Mutant: the End does not reset the flag.
EndCodeBlockStaysInside ==
    /\ HasNext
    /\ ~IsStartCodeBlock(NextEvent)
    /\ in_mermaid_block
    /\ IsEndCodeBlock(NextEvent)
    /\ Mermaid = NextEvent.s
    /\ Yield(Html(MermaidCode(mermaid_content)))
    /\ UNCHANGED <<walk, opts, cmark_state, in_mermaid_block, mermaid_content>>

\* Mutant: the End clears the accumulator once it has formatted it.
EndCodeBlockClears ==
    /\ HasNext
    /\ ~IsStartCodeBlock(NextEvent)
    /\ in_mermaid_block
    /\ IsEndCodeBlock(NextEvent)
    /\ Mermaid = NextEvent.s
    /\ in_mermaid_block' = FALSE
    /\ mermaid_content' = <<>>
    /\ Yield(Html(MermaidCode(mermaid_content)))
    /\ UNCHANGED <<walk, opts, cmark_state>>

\* Event::End(Tag::CodeBlock(code)) with the assertion holding
EndCodeBlock ==
    /\ HasNext
    /\ ~IsStartCodeBlock(NextEvent)
    /\ in_mermaid_block
    /\ IsEndCodeBlock(NextEvent)
    /\ Mermaid = NextEvent.s
    /\ in_mermaid_block' = FALSE
    /\ Yield(Html(MermaidCode(mermaid_content)))
    /\ UNCHANGED <<walk, opts, cmark_state, mermaid_content>>

\* Mutant: no assertion, an End of any label closes the block.
AssertSkipped ==
    /\ HasNext
    /\ ~IsStartCodeBlock(NextEvent)
    /\ in_mermaid_block
    /\ IsEndCodeBlock(NextEvent)
    /\ Mermaid # NextEvent.s
    /\ in_mermaid_block' = FALSE
    /\ Yield(Html(MermaidCode(mermaid_content)))
    /\ UNCHANGED <<walk, opts, cmark_state, mermaid_content>>

\* Event::End(Tag::CodeBlock(code)) with the assertion failing: the panic
\* unwinds through cmark, add_mermaid, the walk and run.
AssertFails ==
    /\ HasNext
    /\ ~IsStartCodeBlock(NextEvent)
    /\ in_mermaid_block
    /\ IsEndCodeBlock(NextEvent)
    /\ Mermaid # NextEvent.s
    /\ result' = [tag |-> "Panic",
                  msg |-> "After an opening mermaid code block we expect it to close again"]
    /\ stack' = <<>>
    /\ pc' = "done"
    /\ log' = Append(log, [path |-> Cur, tag |-> "Panic"])
    /\ DropLocals
    /\ UNCHANGED <<renderer, book0, book, ret>>

\* Mutant: the Text is accumulated and returned as well.
TextInsidePassesThrough ==
    /\ HasNext
    /\ in_mermaid_block
    /\ NextEvent.kind = "Text"
    /\ mermaid_content' = PushStr(mermaid_content, NextEvent.s)
    /\ Yield(NextEvent)
    /\ UNCHANGED <<walk, opts, cmark_state, in_mermaid_block>>

\* Event::Text(code)
TextInside ==
    /\ HasNext
    /\ in_mermaid_block
    /\ NextEvent.kind = "Text"
    /\ mermaid_content' = PushStr(mermaid_content, NextEvent.s)
    /\ Yield(None)
    /\ UNCHANGED <<walk, opts, cmark_state, in_mermaid_block>>

\* Mutant: the event is dropped like a Text.
OtherInsideDropped ==
    /\ HasNext
    /\ ~IsStartCodeBlock(NextEvent)
    /\ in_mermaid_block
    /\ ~IsEndCodeBlock(NextEvent)
    /\ NextEvent.kind # "Text"
    /\ Yield(None)
    /\ UNCHANGED <<walk, opts, cmark_state, in_mermaid_block, mermaid_content>>

\* _ => return Some(e)
OtherInside ==
    /\ HasNext
    /\ ~IsStartCodeBlock(NextEvent)
    /\ in_mermaid_block
    /\ ~IsEndCodeBlock(NextEvent)
    /\ NextEvent.kind # "Text"
    /\ Yield(NextEvent)
    /\ UNCHANGED <<walk, opts, cmark_state, in_mermaid_block, mermaid_content>>

\* The Parser is exhausted and cmark returns Ok: .map(|_| buf)
CmarkOk ==
    /\ pc = "add_mermaid"
    /\ pos = Len(CurEvents)
    /\ ret' = [tag |-> "Ok", text |-> Cmark(buf)]
    /\ log' = Append(log, [path |-> Cur, tag |-> "Ok"])
    /\ pc' = "chapter"
    /\ DropLocals
    /\ UNCHANGED <<renderer, book0, book, stack, result>>

\* cmark returns an error of the formatter: .map_err(..)
CmarkErr ==
    /\ pc = "add_mermaid"
    /\ ret' = [tag |-> "Err", msg |-> "Markdown serialization failed"]
    /\ log' = Append(log, [path |-> Cur, tag |-> "Err"])
    /\ pc' = "chapter"
    /\ DropLocals
    /\ UNCHANGED <<renderer, book0, book, stack, result>>

Next ==
    \/ Run
    \/ LoopChapter
    \/ LoopSeparator
    \/ LoopEnd
    \/ RunOk
    \/ ChapterOk
    \/ ChapterErr
    \/ SectionsErr
    \/ RunErr
    \/ StartMermaid
    \/ StartOther
    \/ Outside
    \/ EndCodeBlock
    \/ AssertFails
    \/ TextInside
    \/ OtherInside
    \/ CmarkOk
    \/ CmarkErr

Spec == Init /\ [][Next]_vars

\* The program is sequential and every step of it is taken in turn.
FairSpec == Spec /\ WF_vars(Next)

(***************************************************************************)
(* What the claims speak of, stated over the Parser's events alone.        *)
(***************************************************************************)
TargetStartAt(ev, i) == ev[i] = Start("CodeBlock", Mermaid)

CodeBlockEndAt(ev, j) == ev[j].kind = "End" /\ ev[j].tag = "CodeBlock"

\* The target block that opens at i and closes at j.
TargetBlock(ev, i, j) ==
    /\ i < j
    /\ TargetStartAt(ev, i)
    /\ ev[j] = End("CodeBlock", Mermaid)
    /\ \A k \in (i + 1)..(j - 1) : ~TargetStartAt(ev, k) /\ ~CodeBlockEndAt(ev, k)

\* A target block is open when the event at i arrives.
OpenBefore(ev, i) ==
    \E b \in 1..(i - 1) :
        /\ TargetStartAt(ev, b)
        /\ \A k \in (b + 1)..(i - 1) : ~CodeBlockEndAt(ev, k)

\* Every target Start has its End, with no target Start between them.
Paired(ev) ==
    \A i \in 1..Len(ev) :
        TargetStartAt(ev, i) => \E j \in 1..Len(ev) : TargetBlock(ev, i, j)

NoTarget(ev) == \A i \in 1..Len(ev) : ~TargetStartAt(ev, i)

TargetStarts(ev) == { i \in 1..Len(ev) : TargetStartAt(ev, i) }

\* The Text runs at the positions i..j, concatenated in order.
RECURSIVE TextRuns(_, _, _)
TextRuns(ev, i, j) ==
    IF i > j THEN <<>>
    ELSE (IF ev[i].kind = "Text" THEN ev[i].s ELSE <<>>) \o TextRuns(ev, i + 1, j)

PreElement(T) == Html(<<"<pre class=\"mermaid\">">> \o T \o <<"</pre>", "\n", "\n">>)

\* The positions whose event the closure replaced by one of its own.
Replaced == { k \in 1..pos : mapped[k] # None /\ mapped[k] # CurEvents[k] }

\* The positions whose event reached cmark.
Kept == { k \in 1..pos : mapped[k] # None }

NthKept(n) == CHOOSE k \in Kept : Cardinality({ h \in Kept : h <= k }) = n

InAddMermaid == pc = "add_mermaid"

AtEnd == pc = "add_mermaid" /\ pos = Len(CurEvents)

\* add_mermaid has returned Ok to apply_to_chapter, for the chapter at Cur.
Returned == pc = "chapter" /\ ret.tag = "Ok"

(***************************************************************************)
(* C1: for every target block whose Text runs concatenate to T, the        *)
(* closure returns, for the End, the Html event of payload                 *)
(* <pre class="mermaid"> T </pre> and two newlines, T verbatim, and no     *)
(* other event of its own for the block; for the adds_mermaid test the     *)
(* serialized events are the heading, the pre element and the paragraph.   *)
(***************************************************************************)
C1_ExactReplacement ==
    /\ InAddMermaid =>
        \A i \in 1..pos : \A j \in 1..pos :
            TargetBlock(CurEvents, i, j) =>
                /\ mapped[j] = PreElement(TextRuns(CurEvents, i + 1, j - 1))
                /\ \A k \in i..(j - 1) : mapped[k] \in {None, CurEvents[k]}
    /\ (Returned /\ book[Cur].content.events = AddsMermaidEvents) =>
        ret.text.events =
            << Start("Heading", <<>>), Text(<<"Chapter">>), End("Heading", <<>>),
               Html(<<"<pre class=\"mermaid\">", "graph TD", "\n",
                      "A --", ">", " B", "\n", "</pre>", "\n", "\n">>),
               Start("Paragraph", <<>>), Text(<<"Text">>), End("Paragraph", <<>>) >>

C1_Witness ==
    /\ Returned
    /\ book[Cur].content.events = AddsMermaidEvents

(***************************************************************************)
(* C2: when the target blocks are paired, the closure has replaced exactly *)
(* as many events as there are target blocks, each by an Html event, and   *)
(* exactly one within each block.                                          *)
(***************************************************************************)
C2_OneReplacementPerBlock ==
    (AtEnd /\ Paired(CurEvents)) =>
        /\ Cardinality(Replaced) = Cardinality(TargetStarts(CurEvents))
        /\ \A k \in Replaced : mapped[k].kind = "Html"
        /\ \A i \in 1..pos : \A j \in 1..pos :
            TargetBlock(CurEvents, i, j) =>
                Cardinality({ k \in Replaced : i <= k /\ k <= j }) = 1

C2_Witness ==
    /\ AtEnd
    /\ Paired(CurEvents)
    /\ Cardinality(TargetStarts(CurEvents)) >= 2

(***************************************************************************)
(* C3: with N paired target blocks, the k-th replacement's payload wraps   *)
(* the Text runs of the k-th block and nothing of another block.           *)
(***************************************************************************)
RECURSIVE BlockTexts(_, _)
BlockTexts(ev, i) ==
    IF i > Len(ev) THEN <<>>
    ELSE IF TargetStartAt(ev, i)
         THEN LET j == CHOOSE h \in 1..Len(ev) : TargetBlock(ev, i, h)
              IN  <<TextRuns(ev, i + 1, j - 1)>> \o BlockTexts(ev, i + 1)
         ELSE BlockTexts(ev, i + 1)

RECURSIVE Payloads(_)
Payloads(k) ==
    IF k > pos THEN <<>>
    ELSE IF k \in Replaced THEN <<mapped[k].s>> \o Payloads(k + 1)
         ELSE Payloads(k + 1)

C3_ScopedToOwnBlock ==
    (AtEnd /\ Paired(CurEvents)) =>
        LET texts == BlockTexts(CurEvents, 1)
        IN  Payloads(1) = [k \in 1..Len(texts) |-> PreElement(texts[k]).s]

C3_Witness ==
    /\ AtEnd
    /\ Paired(CurEvents)
    /\ \E i \in 1..pos : \E j \in 1..pos : \E k \in 1..pos : \E l \in 1..pos :
        /\ TargetBlock(CurEvents, i, j)
        /\ j < k
        /\ TargetBlock(CurEvents, k, l)
        /\ TextRuns(CurEvents, i + 1, j - 1) # <<>>
        /\ TextRuns(CurEvents, i + 1, j - 1) # TextRuns(CurEvents, k + 1, l - 1)

(***************************************************************************)
(* C4: a fenced block of another label, met outside a target block, is     *)
(* passed through whole: its Start, its Texts and its End reach cmark as   *)
(* they came, next to each other.                                          *)
(***************************************************************************)
OtherBlock(ev, i, j) ==
    /\ i < j
    /\ ev[i].kind = "Start" /\ ev[i].tag = "CodeBlock" /\ ev[i].s # Mermaid
    /\ ev[j] = End("CodeBlock", ev[i].s)
    /\ \A k \in (i + 1)..(j - 1) : ev[k].tag # "CodeBlock"
    /\ ~OpenBefore(ev, i)

C4_OtherLabelUntouched ==
    InAddMermaid =>
        \A i \in 1..Len(CurEvents) : \A j \in 1..Len(CurEvents) :
            OtherBlock(CurEvents, i, j) =>
                /\ \A k \in i..j : k <= pos => mapped[k] = CurEvents[k]
                /\ j <= pos =>
                    \E n \in 1..Len(buf) :
                        /\ n + (j - i) <= Len(buf)
                        /\ SubSeq(buf, n, n + (j - i)) = SubSeq(CurEvents, i, j)

C4_Witness ==
    /\ AtEnd
    /\ \E i \in 1..pos : \E j \in 1..pos :
        /\ OtherBlock(CurEvents, i, j)
        /\ TextRuns(CurEvents, i + 1, j - 1) # <<>>

(***************************************************************************)
(* C5: cmark receives the events the closure kept in the order of the      *)
(* input; a kept event is the input event of its position or, at the       *)
(* position of a CodeBlock End, the Html that replaces it.                 *)
(***************************************************************************)
C5_OrderPreserved ==
    InAddMermaid =>
        /\ Len(mapped) = pos
        /\ Len(buf) = Cardinality(Kept)
        /\ \A n \in 1..Len(buf) : buf[n] = mapped[NthKept(n)]
        /\ \A k \in 1..pos :
            \/ mapped[k] \in {None, CurEvents[k]}
            \/ CodeBlockEndAt(CurEvents, k) /\ mapped[k].kind = "Html"

C5_Witness ==
    /\ AtEnd
    /\ \E a \in Kept : \E b \in Replaced : \E c \in Kept :
        /\ a < b /\ b < c
        /\ a \notin Replaced
        /\ c \notin Replaced
        /\ CurEvents[a] # CurEvents[c]

(***************************************************************************)
(* C6: on a text with no target Start the closure returns every event as   *)
(* it came, and add_mermaid returns the text normalised: the same events,  *)
(* table events included, in cmark's formatting.                           *)
(***************************************************************************)
Normalize(text) == [events |-> text.events, canonical |-> TRUE]

C6_IdentityWithoutTarget ==
    /\ (InAddMermaid /\ NoTarget(CurEvents)) =>
        /\ mapped = SubSeq(CurEvents, 1, pos)
        /\ buf = SubSeq(CurEvents, 1, pos)
    /\ (Returned /\ NoTarget(book[Cur].content.events)) =>
        ret.text = Normalize(book[Cur].content)

C6_Witness ==
    /\ Returned
    /\ book[Cur].content.events = TableEvents

(***************************************************************************)
(* C7: inside a target block, the step that takes a CodeBlock End of       *)
(* another label ends run by the assertion's panic: no event is emitted,   *)
(* add_mermaid returns nothing and the chapter keeps its content.          *)
(***************************************************************************)
MismatchedEndNext ==
    /\ pc = "add_mermaid"
    /\ pos < Len(CurEvents)
    /\ in_mermaid_block
    /\ CodeBlockEndAt(CurEvents, pos + 1)
    /\ CurEvents[pos + 1].s # Mermaid

C7_MismatchedEndAborts ==
    [][(MismatchedEndNext /\ pc' # "chapter") =>
            /\ pc' = "done"
            /\ result'.tag = "Panic"
            /\ DOMAIN result' = {"tag", "msg"}
            /\ ret' = NoResult
            /\ buf' = <<>>
            /\ book' = book]_vars

C7_Witness ==
    /\ pc = "done"
    /\ result.tag = "Panic"

(***************************************************************************)
(* C8, as claimed: invoked for a renderer that supports_renderer rejects,  *)
(* run returns the book it was given.                                      *)
(***************************************************************************)
Chapters(b) == { p \in DOMAIN b : b[p].kind = "Chapter" }

Unsupported == ~SupportsRenderer(renderer)

C8_UnsupportedIsNoOp ==
    (pc = "done" /\ Unsupported /\ result.tag = "Ok") => result.book = book0

(***************************************************************************)
(* C8, amended: supports_renderer accepts "html" alone, and run does not   *)
(* read the renderer: for a renderer that is rejected a returned book has  *)
(* every chapter's content replaced by what add_mermaid returned for it,   *)
(* so a chapter with a target Start has changed.                           *)
(***************************************************************************)
C8_RunIgnoresRenderer ==
    /\ Unsupported <=> renderer # "html"
    /\ (pc = "done" /\ Unsupported /\ result.tag = "Ok") =>
        /\ DOMAIN result.book = DOMAIN book0
        /\ \A p \in Chapters(book0) :
            /\ \E n \in 1..Len(log) : log[n] = [path |-> p, tag |-> "Ok"]
            /\ result.book[p].content.canonical
            /\ ~NoTarget(book0[p].content.events) =>
                    result.book[p].content # book0[p].content

C8_Witness ==
    /\ pc = "done"
    /\ Unsupported
    /\ result.tag = "Ok"
    /\ \E p \in Chapters(book0) :
        /\ ~NoTarget(book0[p].content.events)
        /\ result.book[p].content # book0[p].content

(***************************************************************************)
(* C9: run returns Ok(book) only when add_mermaid returned Ok for every    *)
(* chapter of the tree; once add_mermaid fails for a chapter no further    *)
(* chapter is processed, run ends with that failure and returns no book.   *)
(***************************************************************************)
C9_NoPartialSuccess ==
    /\ \A n \in 1..(Len(log) - 1) : log[n].tag = "Ok"
    /\ (pc = "done" /\ result.tag = "Ok") =>
        /\ \A n \in 1..Len(log) : log[n].tag = "Ok"
        /\ \A p \in Chapters(book0) :
            \E n \in 1..Len(log) : log[n] = [path |-> p, tag |-> "Ok"]
    /\ (pc = "done" /\ log # <<>> /\ log[Len(log)].tag = "Err") =>
        result = [tag |-> "Err", msg |-> "Markdown serialization failed"]
    /\ (pc = "done" /\ log # <<>> /\ log[Len(log)].tag = "Panic") =>
        /\ result.tag = "Panic"
        /\ "book" \notin DOMAIN result

C9_Witness ==
    /\ pc = "done"
    /\ result.tag = "Err"
    /\ Len(log) >= 2
    /\ Len(log[Len(log)].path) >= 2
    /\ book # book0

(***************************************************************************)
(* C10, as claimed: the flags given to the parse step are the flags given  *)
(* to the serialization step.                                              *)
(***************************************************************************)
\* The flags a state argument of cmark carries: None carries none.
FlagsOf(state) == IF state = "None" THEN {} ELSE state

LastTargetStart(ev, k) ==
    CHOOSE b \in 1..(k - 1) :
        /\ TargetStartAt(ev, b)
        /\ \A h \in (b + 1)..(k - 1) : ~TargetStartAt(ev, h)

\* The event at k is a CodeBlock End of another label inside a target block.
FaultAt(ev, k) ==
    /\ ~TargetStartAt(ev, k)
    /\ OpenBefore(ev, k)
    /\ CodeBlockEndAt(ev, k)
    /\ ev[k].s # Mermaid

Faults(ev) == \E k \in 1..Len(ev) : FaultAt(ev, k)

ExpectedAt(ev, k) ==
    IF TargetStartAt(ev, k) THEN None
    ELSE IF ~OpenBefore(ev, k) THEN ev[k]
    ELSE IF ev[k].kind = "Start" /\ ev[k].tag = "CodeBlock" THEN ev[k]
    ELSE IF CodeBlockEndAt(ev, k)
         THEN PreElement(TextRuns(ev, LastTargetStart(ev, k) + 1, k - 1))
    ELSE IF ev[k].kind = "Text" THEN None
    ELSE ev[k]

RECURSIVE ExpectedFrom(_, _)
ExpectedFrom(ev, k) ==
    IF k > Len(ev) THEN <<>>
    ELSE IF ExpectedAt(ev, k) = None THEN ExpectedFrom(ev, k + 1)
         ELSE <<ExpectedAt(ev, k)>> \o ExpectedFrom(ev, k + 1)

Expected(ev) == ExpectedFrom(ev, 1)


Unclosed(ev) == ev # <<>> /\ OpenBefore(ev, Len(ev) + 1)

C12_FlagTracksBlocks ==
    InAddMermaid =>
        /\ pos = 0 => ~in_mermaid_block
        /\ Paired(CurEvents) =>
            (in_mermaid_block <=>
                \E i \in 1..Len(CurEvents) : \E j \in 1..Len(CurEvents) :
                    /\ TargetBlock(CurEvents, i, j)
                    /\ i <= pos
                    /\ pos < j)
        /\ (Paired(CurEvents) /\ pos = Len(CurEvents)) => ~in_mermaid_block

C12_Witness ==
    /\ AtEnd
    /\ Paired(CurEvents)
    /\ ~in_mermaid_block
    /\ \E i \in 1..pos : \E j \in 1..pos :
        TargetBlock(CurEvents, i, j) /\ j > i + 1

(***************************************************************************)
(* C13, as claimed: the accumulator is cleared when the End is taken, so   *)
(* it is empty whenever the flag is false.                                 *)
(***************************************************************************)
C13_EmptyWhenOutside ==
    (InAddMermaid /\ ~in_mermaid_block) => mermaid_content = <<>>

(***************************************************************************)
(* C13, amended: the accumulator is cleared by the step that takes a       *)
(* target Start and by no other.  It holds the Text runs taken since the   *)
(* last target Start, up to the CodeBlock End that closed the block if one *)
(* did: after the End it keeps the text it was flushed with, until the     *)
(* next target Start or the end of the call.                               *)
(***************************************************************************)
\* Where the block opened at b stopped accumulating, as far as pos.
BlockStop(ev, b) ==
    IF \E e \in (b + 1)..pos : CodeBlockEndAt(ev, e)
    THEN CHOOSE e \in (b + 1)..pos :
            /\ CodeBlockEndAt(ev, e)
            /\ \A h \in (b + 1)..(e - 1) : ~CodeBlockEndAt(ev, h)
    ELSE pos + 1

C13_ClearedAtStartOnly ==
    InAddMermaid =>
        IF \E b \in 1..pos : TargetStartAt(CurEvents, b)
        THEN LET b == LastTargetStart(CurEvents, pos + 1)
             IN  mermaid_content =
                    TextRuns(CurEvents, b + 1, BlockStop(CurEvents, b) - 1)
        ELSE mermaid_content = <<>>

C13_Witness ==
    /\ InAddMermaid
    /\ ~in_mermaid_block
    /\ mermaid_content # <<>>
    /\ Replaced # {}

(***************************************************************************)
(* C14: inside a target block, the step that takes an event that is no     *)
(* Text, no CodeBlock End and no target Start returns it as it came and    *)
(* leaves the flag true and the accumulator as it was; the Text runs on    *)
(* both sides of it are in the one replacement of the block.               *)
(***************************************************************************)
OtherEventAt(ev, k) ==
    /\ ev[k].kind # "Text"
    /\ ~CodeBlockEndAt(ev, k)
    /\ ~TargetStartAt(ev, k)

OtherInsideNext ==
    /\ pc = "add_mermaid"
    /\ pos < Len(CurEvents)
    /\ in_mermaid_block
    /\ OtherEventAt(CurEvents, pos + 1)

C14_OtherEventInsidePasses ==
    /\ [](InAddMermaid =>
            \A i \in 1..pos : \A j \in 1..pos : \A k \in (i + 1)..(j - 1) :
                (TargetBlock(CurEvents, i, j) /\ OtherEventAt(CurEvents, k)) =>
                    /\ mapped[k] = CurEvents[k]
                    /\ mapped[j] = PreElement(TextRuns(CurEvents, i + 1, k - 1)
                                              \o TextRuns(CurEvents, k + 1, j - 1))
                    /\ Cardinality({ h \in Replaced : i <= h /\ h <= j }) = 1)
    /\ [][(OtherInsideNext /\ pc' = "add_mermaid") =>
            /\ pos' = pos + 1
            /\ mapped' = Append(mapped, CurEvents[pos + 1])
            /\ buf' = Append(buf, CurEvents[pos + 1])
            /\ in_mermaid_block'
            /\ mermaid_content' = mermaid_content]_vars

C14_Witness ==
    /\ AtEnd
    /\ \E i \in 1..pos : \E j \in 1..pos : \E k \in (i + 1)..(j - 1) :
        /\ TargetBlock(CurEvents, i, j)
        /\ OtherEventAt(CurEvents, k)
        /\ TextRuns(CurEvents, i + 1, k - 1) # <<>>
        /\ TextRuns(CurEvents, k + 1, j - 1) # <<>>

(***************************************************************************)
(* C15: when the stream ends in a target block that no CodeBlock End       *)
(* closed, the flag is true at the end, no event from the block's Start on *)
(* was replaced by an Html, every Text from there on was dropped, and      *)
(* add_mermaid still returns Ok.                                           *)
(***************************************************************************)
C15_UnclosedBlockIsLost ==
    (AtEnd /\ Unclosed(CurEvents)) =>
        LET b == LastTargetStart(CurEvents, pos + 1)
        IN  /\ in_mermaid_block
            /\ \A k \in b..pos :
                /\ k \notin Replaced
                /\ CurEvents[k].kind = "Text" => mapped[k] = None
            /\ ENABLED CmarkOk

C15_Witness ==
    /\ Returned
    /\ book[Cur].content.events = <<Text(GraphTD), Start("CodeBlock", Mermaid), Text(AToB)>>
    /\ ret.text.events = <<Text(GraphTD)>>

(***************************************************************************)
(* C16: add_mermaid is called for the chapters in pre-order, each once;    *)
(* when run returns Ok every chapter of the tree, at every depth, holds    *)
(* what add_mermaid returns for its original content; and run ends.        *)
(***************************************************************************)
\* The chapters among the items i, i + 1, .. of the list at p, in pre-order.
RECURSIVE PreOrder(_, _, _)
PreOrder(b, p, i) ==
    IF i > NumItems(b, p) THEN <<>>
    ELSE (IF b[p \o <<i>>].kind = "Chapter"
          THEN <<p \o <<i>>>> \o PreOrder(b, p \o <<i>>, 1)
          ELSE <<>>)
         \o PreOrder(b, p, i + 1)

Visited == [n \in 1..Len(log) |-> log[n].path]

C16_EveryChapterOnceInPreOrder ==
    /\ [](/\ Len(log) <= Len(PreOrder(book0, <<>>, 1))
          /\ Visited = SubSeq(PreOrder(book0, <<>>, 1), 1, Len(log))
          /\ (pc = "done" /\ result.tag = "Ok") =>
                /\ Visited = PreOrder(book0, <<>>, 1)
                /\ \A p \in Chapters(book0) :
                    result.book[p].content =
                        [events |-> Expected(book0[p].content.events),
                         canonical |-> TRUE])
    /\ <>(pc = "done")

C16_Witness ==
    /\ pc = "done"
    /\ result.tag = "Ok"
    /\ Len(log) = 3
    /\ \E n \in 1..Len(log) : Len(log[n].path) >= 2
    /\ \E p \in Chapters(book0) : result.book[p].content.events # book0[p].content.events

(***************************************************************************)
(* C17: the walk changes chapter contents and nothing else: at every step  *)
(* and in the book run returns, the items are at the same places, each is  *)
(* a chapter or a separator as before, and the separators are as before.   *)
(***************************************************************************)
SameShape(b) ==
    /\ DOMAIN b = DOMAIN book0
    /\ \A p \in DOMAIN book0 :
        /\ b[p].kind = book0[p].kind
        /\ book0[p].kind = "Separator" => b[p] = book0[p]

C17_ShapeUnchanged ==
    /\ SameShape(book)
    /\ (pc = "done" /\ result.tag = "Ok") => SameShape(result.book)

C17_Witness ==
    /\ pc = "done"
    /\ result.tag = "Ok"
    /\ result.book # book0
    /\ \E p \in DOMAIN book0 : book0[p].kind = "Separator"
    /\ \E p \in DOMAIN book0 : Len(p) >= 2

(***************************************************************************)
(* C18: the Start check comes before the flag check.  A target Start is    *)
(* handled alike outside and inside a block: nothing is returned for it,   *)
(* the flag is set and the accumulator is emptied, so the Text between an  *)
(* unclosed target Start and the next target Start is in no replacement.   *)
(* A Start(CodeBlock) of another label met inside a block is returned and  *)
(* the flag stays set.                                                     *)
(***************************************************************************)
TargetStartNext ==
    /\ pc = "add_mermaid"
    /\ pos < Len(CurEvents)
    /\ TargetStartAt(CurEvents, pos + 1)

OtherStartInsideNext ==
    /\ pc = "add_mermaid"
    /\ pos < Len(CurEvents)
    /\ in_mermaid_block
    /\ CurEvents[pos + 1].kind = "Start"
    /\ CurEvents[pos + 1].tag = "CodeBlock"
    /\ ~TargetStartAt(CurEvents, pos + 1)

\* The target Start at k arrives while the block opened at i is still open.
Restarted(ev, i, k) ==
    /\ i < k
    /\ TargetStartAt(ev, i)
    /\ TargetStartAt(ev, k)
    /\ \A h \in (i + 1)..(k - 1) : ~CodeBlockEndAt(ev, h) /\ ~TargetStartAt(ev, h)

C18_StartCheckedFirst ==
    /\ [](InAddMermaid =>
            \A i \in 1..pos : \A k \in 1..pos :
                Restarted(CurEvents, i, k) =>
                    /\ mapped[k] = None
                    /\ \A h \in (i + 1)..(k - 1) :
                        CurEvents[h].kind = "Text" => mapped[h] = None
                    /\ \A j \in 1..pos :
                        TargetBlock(CurEvents, k, j) =>
                            mapped[j] = PreElement(TextRuns(CurEvents, k + 1, j - 1))
                    /\ (k = pos => in_mermaid_block /\ mermaid_content = <<>>))
    /\ [][(TargetStartNext /\ pc' = "add_mermaid") =>
            /\ pos' = pos + 1
            /\ mapped' = Append(mapped, None)
            /\ buf' = buf
            /\ in_mermaid_block'
            /\ mermaid_content' = <<>>]_vars
    /\ [][(OtherStartInsideNext /\ pc' = "add_mermaid") =>
            /\ pos' = pos + 1
            /\ mapped' = Append(mapped, CurEvents[pos + 1])
            /\ buf' = Append(buf, CurEvents[pos + 1])
            /\ in_mermaid_block'
            /\ mermaid_content' = mermaid_content]_vars

C18_Witness ==
    /\ AtEnd
    /\ \E i \in 1..pos : \E k \in 1..pos : \E j \in 1..pos :
        /\ Restarted(CurEvents, i, k)
        /\ TextRuns(CurEvents, i + 1, k - 1) # <<>>
        /\ TargetBlock(CurEvents, k, j)
        /\ mapped[j] = PreElement(TextRuns(CurEvents, k + 1, j - 1))
        /\ \E h \in (k + 1)..(j - 1) :
            /\ CurEvents[h] = Start("CodeBlock", Python)
            /\ mapped[h] = CurEvents[h]

(***************************************************************************)
(* C19: what add_mermaid hands to cmark never holds a target Start, nor a  *)
(* Text that arrived while a target block was open; when every target      *)
(* Start and every End(CodeBlock "mermaid") belong to a target block, it   *)
(* holds no End(CodeBlock "mermaid") either.                               *)
(***************************************************************************)
\* Every target Start opens a block and every target End closes one.
FullyPaired(ev) ==
    /\ Paired(ev)
    /\ \A j \in 1..Len(ev) :
        ev[j] = End("CodeBlock", Mermaid) => \E i \in 1..Len(ev) : TargetBlock(ev, i, j)

C19_NoTargetMarkersInOutput ==
    InAddMermaid =>
        /\ buf = FilterMap(mapped)
        /\ \A n \in 1..Len(buf) : buf[n] # Start("CodeBlock", Mermaid)
        /\ \A k \in 1..pos :
            TargetStartAt(CurEvents, k) => mapped[k] = None
        /\ \A k \in 1..pos :
            (CurEvents[k].kind = "Text" /\ OpenBefore(CurEvents, k)) => mapped[k] = None
        /\ FullyPaired(CurEvents) =>
            \A n \in 1..Len(buf) : buf[n] # End("CodeBlock", Mermaid)

C19_Witness ==
    /\ AtEnd
    /\ FullyPaired(CurEvents)
    /\ Cardinality(TargetStarts(CurEvents)) >= 2
    /\ \E k \in 1..pos : CurEvents[k].kind = "Text" /\ OpenBefore(CurEvents, k)
    /\ \E k \in 1..pos : CurEvents[k].kind = "Text" /\ mapped[k] = CurEvents[k]
    /\ Len(buf) >= 3

====
